---------------------------- MODULE Spec2Model ----------------------------
(***************************************************************************)
(* A model of the PostgreSQL MCP gateway (src/src/main.py and              *)
(* src/src/utils): the query guard check_query, the schema normalizer      *)
(* parse_tables, and the three public operations database_status,          *)
(* get_schema_tables and execute_query.                                    *)
(*                                                                         *)
(* Python values are modelled as follows.  A str that the code inspects    *)
(* character by character (the query) is a sequence of one-character       *)
(* strings; every other str is an opaque TLA+ string.  A dict is a TLA+    *)
(* function from its keys (dict equality ignores insertion order).  A value *)
(* whose type the code or a library dispatches on is tagged with its type: *)
(* PyDict, PyStr, PyInt, PyNone.  An exception is the name of its class.   *)
(***************************************************************************)
EXTENDS Integers, Sequences, FiniteSets, TLC

(***************************************************************************)
(* Bounds of the model.                                                    *)
(***************************************************************************)
\* longest query enumerated exhaustively over GuardAlphabet
MaxQueryLen == 4
\* most rows a cursor returns / parse_tables is given
MaxRows == 3

(***************************************************************************)
(* Characters and words.                                                   *)
(***************************************************************************)
\* str.strip() and str.split() without arguments act on whitespace
Whitespace == {" ", "\t", "\n", "\r", "\f"}

UpperLetters ==
    <<"A","B","C","D","E","F","G","H","I","J","K","L","M",
      "N","O","P","Q","R","S","T","U","V","W","X","Y","Z">>

LowerLetters ==
    <<"a","b","c","d","e","f","g","h","i","j","k","l","m",
      "n","o","p","q","r","s","t","u","v","w","x","y","z">>

SELECT   == <<"S","E","L","E","C","T">>
SHOW     == <<"S","H","O","W">>
DESCRIBE == <<"D","E","S","C","R","I","B","E">>
DESC     == <<"D","E","S","C">>
EXPLAIN  == <<"E","X","P","L","A","I","N">>

\* validation.py: ALLOWED_KEYWORDS = ("SELECT", "SHOW", "DESCRIBE", "DESC", "EXPLAIN")
ALLOWED_KEYWORDS == <<SELECT, SHOW, DESCRIBE, DESC, EXPLAIN>>

(***************************************************************************)
(* utils/validation.py: check_query                                        *)
(***************************************************************************)
RECURSIVE lstrip(_)
lstrip(s) ==
    IF s = <<>> THEN s
    ELSE IF Head(s) \in Whitespace THEN lstrip(Tail(s)) ELSE s

RECURSIVE rstrip(_)
rstrip(s) ==
    IF s = <<>> THEN s
    ELSE IF s[Len(s)] \in Whitespace THEN rstrip(SubSeq(s, 1, Len(s) - 1)) ELSE s

\* query.strip()
strip(s) == rstrip(lstrip(s))

\* length of the run of non-whitespace characters s starts with
RECURSIVE TokenLen(_)
TokenLen(s) ==
    IF s = <<>> \/ Head(s) \in Whitespace THEN 0 ELSE 1 + TokenLen(Tail(s))

\* str.split(): the maximal runs of non-whitespace characters, in order
RECURSIVE split(_)
split(s) ==
    LET t == lstrip(s) IN
    IF t = <<>> THEN <<>>
    ELSE LET n == TokenLen(t) IN
         <<SubSeq(t, 1, n)>> \o split(SubSeq(t, n + 1, Len(t)))

upper_char(c) ==
    IF \E n \in DOMAIN LowerLetters : LowerLetters[n] = c
    THEN UpperLetters[CHOOSE n \in DOMAIN LowerLetters : LowerLetters[n] = c]
    ELSE c

\* a mutation of upper: the token is compared as typed
upper_asis(s) == s

\* str.upper()
upper(s) == [i \in 1..Len(s) |-> upper_char(s[i])]

check_query(query) ==
    IF strip(query) = <<>> THEN FALSE
    ELSE LET first_word == upper(split(strip(query))[1]) IN
         \E k \in DOMAIN ALLOWED_KEYWORDS : ALLOWED_KEYWORDS[k] = first_word


(***************************************************************************)
(* Python values and dicts.                                                *)
(***************************************************************************)
PyNone == [type |-> "NoneType"]
PyInt(n) == [type |-> "int", val |-> n]
PyStr(t) == [type |-> "str", text |-> t]
PyDict(d) == [type |-> "dict", items |-> d]

\* {}
EmptyDict == [k \in {} |-> PyNone]

\* d[k] = v
SetItem(d, k, v) == [x \in DOMAIN d \cup {k} |-> IF x = k THEN v ELSE d[x]]

(***************************************************************************)
(* utils/tables_parser.py: parse_tables                                    *)
(***************************************************************************)
\* defaultdict(_nested_dict).__getitem__: a missing key is created with an
\* empty nested defaultdict; the result is <<the dict after the access, the value>>
nested_getitem(d, k) ==
    IF k \in DOMAIN d THEN <<d, d[k]>> ELSE <<SetItem(d, k, EmptyDict), EmptyDict>>

\* a mutation of column_descriptor: data_type and is_nullable are crossed
column_descriptor_crossed(dtype, nullable, char_len) ==
    [data_type |-> nullable, is_nullable |-> dtype,
     character_maximum_length |-> char_len]

\* the dict literal of lines 20-24
column_descriptor(dtype, nullable, char_len) ==
    [data_type |-> dtype, is_nullable |-> nullable,
     character_maximum_length |-> char_len]

\* a mutation of assign_column: a column already present keeps its descriptor
assign_column_keepfirst(db_structure, schema, table, column, descriptor) ==
    LET s == nested_getitem(db_structure, schema)
        t == nested_getitem(s[2], table)
        old == t[2]
    IN  SetItem(s[1], schema,
            SetItem(s[2], table,
                IF column \in DOMAIN old THEN old
                ELSE SetItem(old, column, descriptor)))

\* db_structure[schema][table][column] = descriptor
assign_column(db_structure, schema, table, column, descriptor) ==
    LET s == nested_getitem(db_structure, schema)
        t == nested_getitem(s[2], table)
    IN  SetItem(s[1], schema,
            SetItem(s[2], table,
                SetItem(t[2], column, descriptor)))

\* the for loop of lines 19-24 from row i on: unpacking a row that has not
\* exactly six fields raises ValueError and leaves the loop
RECURSIVE parse_loop(_, _, _)
parse_loop(query_results, i, db_structure) ==
    IF i > Len(query_results) THEN [exc |-> "none", db_structure |-> db_structure]
    ELSE LET row == query_results[i] IN
         IF Len(row) # 6 THEN [exc |-> "ValueError", db_structure |-> db_structure]
         ELSE parse_loop(query_results, i + 1,
                  assign_column(db_structure, row[1], row[2], row[3],
                      column_descriptor(row[4], row[5], row[6])))

\* json.dumps of one scalar of a descriptor: a str becomes a JSON string, an
\* int a JSON number, None the JSON null
json_dumps_scalar(v) ==
    IF v.type = "str" THEN [json |-> "string", val |-> v.text]
    ELSE IF v.type = "int" THEN [json |-> "number", val |-> v.val]
    ELSE [json |-> "null"]

\* json.loads of one JSON scalar
json_loads_scalar(j) ==
    IF j.json = "string" THEN PyStr(j.val)
    ELSE IF j.json = "number" THEN PyInt(j.val)
    ELSE PyNone

\* json.dumps(db_structure): the defaultdicts are written as JSON objects
json_dumps(db_structure) ==
    [s \in DOMAIN db_structure |->
        [t \in DOMAIN db_structure[s] |->
            [c \in DOMAIN db_structure[s][t] |->
                [f \in DOMAIN db_structure[s][t][c] |->
                    json_dumps_scalar(db_structure[s][t][c][f])]]]]

\* json.loads(text): every JSON object is read back as a plain dict
json_loads(text) ==
    [s \in DOMAIN text |->
        [t \in DOMAIN text[s] |->
            [c \in DOMAIN text[s][t] |->
                [f \in DOMAIN text[s][t][c] |->
                    json_loads_scalar(text[s][t][c][f])]]]]

\* the exception is logged and the function falls off its end: it returns None
parse_tables(query_results) ==
    LET loop == parse_loop(query_results, 1, EmptyDict) IN
    IF loop.exc = "none" THEN PyDict(json_loads(json_dumps(loop.db_structure)))
    ELSE PyNone

(***************************************************************************)
(* Rows of information_schema.columns, as the cursor returns them.         *)
(***************************************************************************)
SchemaNames == {"public", "app"}
TableNames == {"users", "orders"}
ColumnNames == {"id", "name"}
Descriptors ==
    {<<PyStr("integer"), PyStr("NO"), PyNone>>,
     <<PyStr("varchar"), PyStr("YES"), PyInt(255)>>}

WellFormedRows ==
    {<<s, t, c, d[1], d[2], d[3]>> :
        s \in SchemaNames, t \in TableNames, c \in ColumnNames, d \in Descriptors}

\* rows of the wrong arity: one field short, one field too many
MalformedRows ==
    {<<"public", "users", "id", PyStr("integer"), PyStr("NO")>>,
     <<"public", "users", "id", PyStr("integer"), PyStr("NO"), PyNone, PyStr("extra")>>}

SeqsUpTo(S, n) == UNION {[1..m -> S] : m \in 0..n}

(***************************************************************************)
(* State.                                                                  *)
(***************************************************************************)
VARIABLES
    \* main.py, one request at a time
    op,            \* the operation being served: "none", "status", "schema", "query"
    pc,            \* the position of the operation in its code
    ctx,           \* the request context: [client_id, request_id]
    query,         \* execute_query's argument
    con,           \* the connection of this call: "none", "open", "closed"
    acquired,      \* connections psycopg.connect has opened in this call
    released,      \* connections closed in this call
    executed,      \* statements handed to cur.execute in this call
    failure,       \* what the database made fail in this call, "none" if nothing
    columns,       \* execute_query's local columns
    rows,          \* the rows cur.fetchall() returned
    response,      \* the local response
    err_response,  \* the local err_response of the except clause
    exc,           \* the exception in flight, "none" if none
    outcome,       \* how the call ended: "none" (running), "return", "raise"
    retval,        \* the value returned when outcome = "return"
    \* check_query applied to one query
    guard_query, guard_result, guard_pc,
    \* parse_tables applied to rows, and to the rows its tree flattens to
    in_rows, tree, flat_rows, tree2, parse_pc

main_vars ==
    <<op, pc, ctx, query, con, acquired, released, executed, failure, columns,
      rows, response, err_response, exc, outcome, retval>>

guard_vars == <<guard_query, guard_result, guard_pc>>

parse_vars == <<in_rows, tree, flat_rows, tree2, parse_pc>>

vars == <<main_vars, guard_vars, parse_vars>>

(***************************************************************************)
(* The collaborators of main.py.                                           *)
(***************************************************************************)
PyBool(b) == [type |-> "bool", val |-> b]
PyExc(class) == [type |-> "exception", class |-> class]
PyConnection == [type |-> "Connection"]

\* the message of the three except clauses (the source prefixes a cross mark)
ConnectionFailedMessage == "Connection failed"
\* the message of execute_query's else branch
NonSafeMessage == "This query use non-safe first word"

\* utils/db.py get_connection: psycopg.connect either returns a connection or
\* raises; the exception is logged and the function then returns None.  The
\* log.info of line 12 reads db_con.__getstate__, which every object has from
\* Python 3.11 on, and a logging call does not raise on a bad format string
get_connection(connect_ok) == IF connect_ok THEN PyConnection ELSE PyNone

\* pydantic.BaseModel(**kwargs), the exception it raises: ** of a value that
\* is no mapping is a TypeError of the call itself; with a mapping, pydantic
\* (version 2, which utils/settings.py's pydantic_settings requires) refuses to
\* instantiate BaseModel itself with PydanticUserError, whatever the fields
BaseModel(kwargs) ==
    IF kwargs.type # "dict" THEN "TypeError" ELSE "PydanticUserError"

\* the request context of a call
Contexts == [client_id : {"c1", "c2"}, request_id : {"r1", "r2"}]

\* response = {"client_id": ctx.client_id, "request_id": ctx.request_id}
context_response(c) ==
    PyDict([k \in {"client_id", "request_id"} |->
               IF k = "client_id" THEN c.client_id ELSE c.request_id])

NoContext == [client_id |-> "", request_id |-> ""]

(***************************************************************************)
(* Steps the three operations share, written once.                         *)
(***************************************************************************)
\* with get_connection() as con: with con.cursor() as cur:
\* entering the with statement on None raises TypeError inside the try
WithConnection(next) ==
    /\ pc = "connect"
    /\ \E connect_ok \in BOOLEAN :
          LET db_con == get_connection(connect_ok) IN
          IF db_con.type = "NoneType"
          THEN /\ exc' = "TypeError"
               /\ failure' = "ConnectionError"
               /\ pc' = "except"
               /\ UNCHANGED <<con, acquired>>
          ELSE /\ con' = "open"
               /\ acquired' = acquired + 1
               /\ pc' = next
               /\ UNCHANGED <<exc, failure>>
    /\ UNCHANGED <<op, ctx, query, released, executed, columns, rows, response,
                   err_response, outcome, retval, guard_vars, parse_vars>>

\* a mutation of ExitWith: the connection is closed only when the body
\* ended without an exception
ExitWith_leak ==
    /\ pc = "exit"
    /\ IF exc = "none"
       THEN con' = "closed" /\ released' = released + 1
       ELSE UNCHANGED <<con, released>>
    /\ IF exc # "none" THEN pc' = "except" /\ UNCHANGED outcome
       ELSE pc' = "done" /\ outcome' = "return"
    /\ UNCHANGED <<op, ctx, query, acquired, executed, failure, columns, rows,
                   response, err_response, exc, retval, guard_vars, parse_vars>>

\* leaving the two with statements, by return or by exception: the cursor and
\* the connection are closed, then the exception reaches the except clause
ExitWith ==
    /\ pc = "exit"
    /\ con' = "closed"
    /\ released' = released + 1
    /\ IF exc # "none" THEN pc' = "except" /\ UNCHANGED outcome
       ELSE pc' = "done" /\ outcome' = "return"
    /\ UNCHANGED <<op, ctx, query, acquired, executed, failure, columns, rows,
                   response, err_response, exc, retval, guard_vars, parse_vars>>

\* log.debug(pydantic.BaseModel(**response)); return pydantic.BaseModel(**response)
\* the first construction raises, so the return statement is never reached
ReturnResponse ==
    /\ pc = "return"
    /\ exc' = BaseModel(response)
    /\ pc' = "exit"
    /\ UNCHANGED <<op, ctx, query, con, acquired, released, executed, failure,
                   columns, rows, response, err_response, outcome, retval,
                   guard_vars, parse_vars>>

\* except Exception as e: err_response = {"message": ..., "error": e}
\* log.debug(pydantic.BaseModel(**err_response)) raises inside the handler:
\* the new exception leaves the operation
ExceptClause ==
    /\ pc = "except"
    /\ err_response' = PyDict([message |-> ConnectionFailedMessage,
                               error |-> PyExc(exc)])
    /\ exc' = BaseModel(err_response')
    /\ outcome' = "raise"
    /\ pc' = "done"
    /\ UNCHANGED <<op, ctx, query, con, acquired, released, executed, failure,
                   columns, rows, response, retval, guard_vars, parse_vars>>

\* cur.execute(sql): the statement reaches the database, which runs it
\* (execute_ok) or fails
Execute(next, execute_ok) ==
    /\ executed' = executed + 1
    /\ IF execute_ok
       THEN pc' = next /\ UNCHANGED <<exc, failure>>
       ELSE exc' = "QueryError" /\ failure' = "QueryError" /\ pc' = "exit"

(***************************************************************************)
(* What the database answers.                                              *)
(***************************************************************************)
ServerVersions == {"PostgreSQL 16.2"}
DatabaseNames == {"postgres", "app_db"}

\* most rows one fetchall() of an operation returns
MaxFetchRows == 2

\* the rows fetchall() gives get_schema_tables
FetchedSchemaRows == SeqsUpTo(WellFormedRows \cup MalformedRows, MaxFetchRows)

\* cur.description of execute_query's statement: its column names
ColumnLists == {<<"x">>, <<"x", "y">>}
ResultValues == {PyInt(1), PyInt(2), PyNone}
\* the rows fetchall() gives execute_query: one value per column
FetchedResultRows(cols) == SeqsUpTo([1..Len(cols) -> ResultValues], MaxFetchRows)

(***************************************************************************)
(* main.py: database_status                                                *)
(***************************************************************************)
database_status(c) ==
    /\ pc = "idle"
    /\ op' = "status"
    /\ ctx' = c
    /\ response' = context_response(c)
    /\ pc' = "connect"
    /\ UNCHANGED <<query, con, acquired, released, executed, failure, columns,
                   rows, err_response, exc, outcome, retval, guard_vars, parse_vars>>

StatusConnect == op = "status" /\ WithConnection("status_query2")

\* response["pg_database_name"] = cur.execute(_query2).fetchone()
StatusQuery2 ==
    /\ op = "status"
    /\ pc = "status_query2"
    /\ \E execute_ok \in BOOLEAN, name \in DatabaseNames :
          /\ Execute("status_query1", execute_ok)
          /\ response' = IF execute_ok
                         THEN PyDict(SetItem(response.items, "pg_database_name", <<name>>))
                         ELSE response
    /\ UNCHANGED <<op, ctx, query, con, acquired, released, columns, rows,
                   err_response, outcome, retval, guard_vars, parse_vars>>

\* response["pg_version"] = cur.execute(_query1).fetchone()
StatusQuery1 ==
    /\ op = "status"
    /\ pc = "status_query1"
    /\ \E execute_ok \in BOOLEAN, version \in ServerVersions :
          /\ Execute("return", execute_ok)
          /\ response' = IF execute_ok
                         THEN PyDict(SetItem(response.items, "pg_version", <<version>>))
                         ELSE response
    /\ UNCHANGED <<op, ctx, query, con, acquired, released, columns, rows,
                   err_response, outcome, retval, guard_vars, parse_vars>>

StatusReturn == op = "status" /\ ReturnResponse

StatusExit == op = "status" /\ ExitWith

StatusExcept == op = "status" /\ ExceptClause

(***************************************************************************)
(* main.py: get_schema_tables                                              *)
(***************************************************************************)
get_schema_tables(c) ==
    /\ pc = "idle"
    /\ op' = "schema"
    /\ ctx' = c
    /\ response' = context_response(c)
    /\ pc' = "connect"
    /\ UNCHANGED <<query, con, acquired, released, executed, failure, columns,
                   rows, err_response, exc, outcome, retval, guard_vars, parse_vars>>

SchemaConnect == op = "schema" /\ WithConnection("execute")

\* cur.execute(_query)
SchemaExecute ==
    /\ op = "schema"
    /\ pc = "execute"
    /\ \E execute_ok \in BOOLEAN : Execute("fetch", execute_ok)
    /\ UNCHANGED <<op, ctx, query, con, acquired, released, columns, rows,
                   response, err_response, outcome, retval, guard_vars, parse_vars>>

\* query_results = cur.fetchall(); response = parse_tables(query_results)
SchemaFetch ==
    /\ op = "schema"
    /\ pc = "fetch"
    /\ \E fetch_ok \in BOOLEAN, query_results \in FetchedSchemaRows :
          IF fetch_ok
          THEN /\ rows' = query_results
               /\ response' = parse_tables(query_results)
               /\ failure' = IF \E i \in DOMAIN query_results : Len(query_results[i]) # 6
                             THEN "InvalidInput" ELSE failure
               /\ pc' = "return"
               /\ UNCHANGED exc
          ELSE /\ exc' = "QueryError"
               /\ failure' = "QueryError"
               /\ pc' = "exit"
               /\ UNCHANGED <<rows, response>>
    /\ UNCHANGED <<op, ctx, query, con, acquired, released, executed, columns,
                   err_response, outcome, retval, guard_vars, parse_vars>>

SchemaReturn == op = "schema" /\ ReturnResponse

SchemaExit == op = "schema" /\ ExitWith

SchemaExcept == op = "schema" /\ ExceptClause

(***************************************************************************)
(* main.py: execute_query                                                  *)
(***************************************************************************)
\* dict(zip(columns, row)): zip stops at the shorter of the two, and a column
\* name that occurs twice keeps its last value
zip_dict(cols, row) ==
    LET n == IF Len(cols) < Len(row) THEN Len(cols) ELSE Len(row) IN
    [k \in {cols[i] : i \in 1..n} |->
        row[CHOOSE i \in 1..n : cols[i] = k /\ \A j \in (i + 1)..n : cols[j] # k]]

\* json.dumps(results, indent=2, default=str): a str holding a JSON array of
\* one JSON object per row
json_dumps_results(results) ==
    PyStr([i \in DOMAIN results |->
              [k \in DOMAIN results[i] |-> json_dumps_scalar(results[i][k])]])

\* a mutation of execute_query: the connection is opened whatever the guard says
execute_query_unguarded(c, q) ==
    /\ pc = "idle"
    /\ op' = "query"
    /\ ctx' = c
    /\ query' = q
    /\ pc' = "connect"
    /\ UNCHANGED <<outcome, retval>>
    /\ UNCHANGED <<con, acquired, released, executed, failure, columns, rows,
                   response, err_response, exc, guard_vars, parse_vars>>

\* if check_query(query): ... else: return {"message": ..., "error": True}
execute_query(c, q) ==
    /\ pc = "idle"
    /\ op' = "query"
    /\ ctx' = c
    /\ query' = q
    /\ IF check_query(q)
       THEN /\ pc' = "connect"
            /\ UNCHANGED <<outcome, retval>>
       ELSE /\ pc' = "done"
            /\ outcome' = "return"
            /\ retval' = PyDict([message |-> NonSafeMessage, error |-> PyBool(TRUE)])
    /\ UNCHANGED <<con, acquired, released, executed, failure, columns, rows,
                   response, err_response, exc, guard_vars, parse_vars>>

QueryConnect == op = "query" /\ WithConnection("execute")

\* cur.execute(query)
QueryExecute ==
    /\ op = "query"
    /\ pc = "execute"
    /\ \E execute_ok \in BOOLEAN : Execute("fetch", execute_ok)
    /\ UNCHANGED <<op, ctx, query, con, acquired, released, columns, rows,
                   response, err_response, outcome, retval, guard_vars, parse_vars>>

\* columns = [desc[0] for desc in cur.description]; rows = cur.fetchall()
\* results = [dict(zip(columns, row)) for row in rows]
\* response = json.dumps(results, indent=2, default=str)
QueryFetch ==
    /\ op = "query"
    /\ pc = "fetch"
    /\ \E fetch_ok \in BOOLEAN, cols \in ColumnLists :
       \E fetched \in FetchedResultRows(cols) :
          IF fetch_ok
          THEN /\ columns' = cols
               /\ rows' = fetched
               /\ response' = json_dumps_results(
                                 [i \in DOMAIN fetched |-> zip_dict(cols, fetched[i])])
               /\ pc' = "return"
               /\ UNCHANGED <<exc, failure>>
          ELSE /\ exc' = "QueryError"
               /\ failure' = "QueryError"
               /\ pc' = "exit"
               /\ UNCHANGED <<columns, rows, response>>
    /\ UNCHANGED <<op, ctx, query, con, acquired, released, executed,
                   err_response, outcome, retval, guard_vars, parse_vars>>

QueryReturn == op = "query" /\ ReturnResponse

QueryExit == op = "query" /\ ExitWith

QueryExcept == op = "query" /\ ExceptClause

(***************************************************************************)
(* Queries the callers send.                                               *)
(***************************************************************************)
\* a keyword as a caller may type it: lower case, or capitalised
lower(s) == [i \in 1..Len(s) |-> LowerLetters[CHOOSE n \in 1..26 : UpperLetters[n] = s[i]]]
capitalised(s) == [i \in 1..Len(s) |-> IF i = 1 THEN s[i] ELSE lower(s)[i]]

DROP == <<"D","R","O","P">>
DELETE == <<"D","E","L","E","T","E">>

Keywords == {ALLOWED_KEYWORDS[k] : k \in DOMAIN ALLOWED_KEYWORDS}

\* first words: the keywords in three spellings, and words that are none
FirstWords ==
    Keywords \cup {lower(w) : w \in Keywords} \cup {capitalised(w) : w \in Keywords}
    \cup {DROP, lower(DELETE), SELECT \o <<"X">>, SubSeq(SELECT, 1, 5),
          lower(DESC) \o <<"r">>, SELECT \o <<";">>, <<"(">> \o SELECT,
          <<"-", "-">>, <<"1">>}

LeadingSpace == {<<>>, <<" ">>, <<"\n", "\t">>}

RestOfQuery ==
    {<<>>, <<" ">>, <<" ", "*">>, <<"\t", "1", " ">>, <<";">> \o DROP,
     <<"\n">> \o DROP \o <<" ", "t">>}

\* the alphabet of the exhaustively enumerated queries: it spells DESC
GuardAlphabet == {" ", "\t", "d", "E", "s", "C", ";"}

GuardQueries ==
    SeqsUpTo(GuardAlphabet, MaxQueryLen)
    \cup {l \o w \o r : l \in LeadingSpace, w \in FirstWords, r \in RestOfQuery}

\* the queries execute_query is called with
QuerySamples ==
    {<<>>, <<" ", " ">>,
     lower(SELECT) \o <<" ", "1">>,
     <<" ", " ">> \o capitalised(SELECT) \o <<" ", "*">>,
     DELETE \o <<" ">> \o lower(SELECT),
     lower(DROP), SHOW, lower(DESC) \o <<"\t", "t">>, EXPLAIN \o <<" ", "x">>,
     lower(DESCRIBE), lower(SELECT) \o <<"x">>}

(***************************************************************************)
(* The gateway serving requests: Spec.                                     *)
(***************************************************************************)
MainIdle ==
    /\ op = "none"
    /\ pc = "idle"
    /\ ctx = NoContext
    /\ query = <<>>
    /\ con = "none"
    /\ acquired = 0
    /\ released = 0
    /\ executed = 0
    /\ failure = "none"
    /\ columns = <<>>
    /\ rows = <<>>
    /\ response = PyNone
    /\ err_response = PyNone
    /\ exc = "none"
    /\ outcome = "none"
    /\ retval = PyNone

GuardIdle ==
    /\ guard_query = <<>>
    /\ guard_result = FALSE
    /\ guard_pc = "unused"

ParseIdle ==
    /\ in_rows = <<>>
    /\ tree = PyNone
    /\ flat_rows = <<>>
    /\ tree2 = PyNone
    /\ parse_pc = "unused"

Init == MainIdle /\ GuardIdle /\ ParseIdle

\* mcp.run: the response has left, the server takes the next request; nothing
\* of the call outlives it
NextRequest ==
    /\ pc = "done"
    /\ op' = "none"
    /\ pc' = "idle"
    /\ ctx' = NoContext
    /\ query' = <<>>
    /\ con' = "none"
    /\ acquired' = 0
    /\ released' = 0
    /\ executed' = 0
    /\ failure' = "none"
    /\ columns' = <<>>
    /\ rows' = <<>>
    /\ response' = PyNone
    /\ err_response' = PyNone
    /\ exc' = "none"
    /\ outcome' = "none"
    /\ retval' = PyNone
    /\ UNCHANGED <<guard_vars, parse_vars>>

Next ==
    \/ \E c \in Contexts : database_status(c)
    \/ StatusConnect
    \/ StatusQuery2
    \/ StatusQuery1
    \/ StatusReturn
    \/ StatusExit
    \/ StatusExcept
    \/ \E c \in Contexts : get_schema_tables(c)
    \/ SchemaConnect
    \/ SchemaExecute
    \/ SchemaFetch
    \/ SchemaReturn
    \/ SchemaExit
    \/ SchemaExcept
    \/ \E c \in Contexts, q \in QuerySamples : execute_query(c, q)
    \/ QueryConnect
    \/ QueryExecute
    \/ QueryFetch
    \/ QueryReturn
    \/ QueryExit
    \/ QueryExcept
    \/ NextRequest

Spec == Init /\ [][Next]_vars

(***************************************************************************)
(* check_query applied to a query: SpecGuard.                              *)
(***************************************************************************)
GuardInit ==
    /\ MainIdle
    /\ ParseIdle
    /\ guard_query \in GuardQueries
    /\ guard_result = FALSE
    /\ guard_pc = "input"

GuardCheck ==
    /\ guard_pc = "input"
    /\ guard_result' = check_query(guard_query)
    /\ guard_pc' = "checked"
    /\ UNCHANGED <<guard_query, main_vars, parse_vars>>

GuardNext == GuardCheck

SpecGuard == GuardInit /\ [][GuardNext]_vars

(***************************************************************************)
(* parse_tables applied to rows, then to the rows of its own tree:         *)
(* SpecParse.                                                              *)
(***************************************************************************)
\* the rows a tree flattens to: one per column leaf
FlattenedRows(t) ==
    UNION {UNION {{<<s, tb, c, t[s][tb][c].data_type, t[s][tb][c].is_nullable,
                     t[s][tb][c].character_maximum_length>> :
                        c \in DOMAIN t[s][tb]} :
                  tb \in DOMAIN t[s]} :
           s \in DOMAIN t}

\* the sequences that list every element of S once
Orderings(S) ==
    {f \in [1..Cardinality(S) -> S] : \A i, j \in DOMAIN f : f[i] = f[j] => i = j}

ParseInit ==
    /\ MainIdle
    /\ GuardIdle
    /\ in_rows \in SeqsUpTo(WellFormedRows \cup MalformedRows, MaxRows)
    /\ tree = PyNone
    /\ flat_rows = <<>>
    /\ tree2 = PyNone
    /\ parse_pc = "input"

\* tree = parse_tables(in_rows)
Normalize ==
    /\ parse_pc = "input"
    /\ tree' = parse_tables(in_rows)
    /\ parse_pc' = "parsed"
    /\ UNCHANGED <<in_rows, flat_rows, tree2, main_vars, guard_vars>>

\* the tree is flattened to its rows, in any order
Flatten ==
    /\ parse_pc = "parsed"
    /\ tree.type = "dict"
    /\ flat_rows' \in Orderings(FlattenedRows(tree.items))
    /\ parse_pc' = "flat"
    /\ UNCHANGED <<in_rows, tree, tree2, main_vars, guard_vars>>

\* tree2 = parse_tables(flat_rows)
Renormalize ==
    /\ parse_pc = "flat"
    /\ tree2' = parse_tables(flat_rows)
    /\ parse_pc' = "renormalized"
    /\ UNCHANGED <<in_rows, tree, flat_rows, main_vars, guard_vars>>

ParseNext == Normalize \/ Flatten \/ Renormalize

SpecParse == ParseInit /\ [][ParseNext]_vars

(***************************************************************************)
(* Properties of check_query (SpecGuard).                                  *)
(***************************************************************************)
\* tok spells the upper-case word kw in any mix of cases
SpellsIgnoringCase(tok, kw) ==
    /\ Len(tok) = Len(kw)
    /\ \A k \in 1..Len(kw) :
          \E n \in 1..26 : /\ kw[k] = UpperLetters[n]
                           /\ tok[k] \in {UpperLetters[n], LowerLetters[n]}

\* s[i..j] is the first whitespace-delimited token of s
IsFirstToken(s, i, j) ==
    /\ i <= j
    /\ \A k \in 1..(i - 1) : s[k] \in Whitespace
    /\ \A k \in i..j : s[k] \notin Whitespace
    /\ j = Len(s) \/ s[j + 1] \in Whitespace

\* s has a first token, and it is one of the five keywords in any case
FirstTokenIsAllowed(s) ==
    \E i, j \in 1..Len(s) :
        /\ IsFirstToken(s, i, j)
        /\ \E kw \in {SELECT, SHOW, DESCRIBE, DESC, EXPLAIN} :
              SpellsIgnoringCase(SubSeq(s, i, j), kw)

\* C1: check_query(s) is true exactly when s has a first whitespace-delimited
\* token that is, upper-cased, one of SELECT, SHOW, DESCRIBE, DESC, EXPLAIN; it
\* is false for the empty and the all-whitespace query; and what follows the
\* first token (after whitespace) does not change the answer.
C1_GuardAcceptsExactlyAllowedFirstWords ==
    guard_pc = "checked" =>
        /\ guard_result = FirstTokenIsAllowed(guard_query)
        /\ (\A k \in 1..Len(guard_query) : guard_query[k] \in Whitespace)
              => guard_result = FALSE
        /\ (\E k \in 1..Len(guard_query) : guard_query[k] \notin Whitespace)
              => \A r \in RestOfQuery :
                    check_query(guard_query \o <<" ">> \o r) = guard_result

\* a lower-case keyword behind leading whitespace, followed by more, was accepted
C1_Witness ==
    /\ guard_pc = "checked"
    /\ guard_result = TRUE
    /\ Len(guard_query) > 6
    /\ guard_query[1] \in Whitespace
    /\ \E k \in 1..Len(guard_query) : guard_query[k] = "e"
    /\ guard_query[Len(guard_query)] = "t"

(***************************************************************************)
(* Properties of the three operations (Spec).                              *)
(***************************************************************************)
\* a mapping with a message and an error field
IsErrorPayload(v) ==
    /\ v.type = "dict"
    /\ {"message", "error"} \subseteq DOMAIN v.items

\* C2: a query the guard rejects is answered with an ErrorPayload, and in that
\* call no connection is opened and no statement is executed.
C2_RejectedQueryNeverReachesDatabase ==
    (op = "query" /\ ~check_query(query)) =>
        /\ acquired = 0
        /\ executed = 0
        /\ con = "none"
        /\ pc = "done"
        /\ outcome = "return"
        /\ IsErrorPayload(retval)

\* DELETE ... was rejected and answered
C2_Witness ==
    /\ op = "query"
    /\ pc = "done"
    /\ query # <<>>
    /\ Head(query) = "D"
    /\ ~check_query(query)
    /\ outcome = "return"
    /\ retval.items.message = NonSafeMessage

\* C3: an accepted query that the database runs successfully is answered with
\* the sequence of mappings, the i-th sending each column name to the value of
\* row i in that column.
C3_AcceptedQueryReturnsRowMappings ==
    (op = "query" /\ pc = "done" /\ check_query(query) /\ failure = "none") =>
        /\ outcome = "return"
        /\ retval.type = "list"
        /\ Len(retval.items) = Len(rows)
        /\ \A i \in 1..Len(rows) :
              /\ DOMAIN retval.items[i] = {columns[j] : j \in 1..Len(columns)}
              /\ \A j \in 1..Len(columns) : retval.items[i][columns[j]] = rows[i][j]

\* C4: in every call, on every exit path, the connection the call acquired is
\* released exactly once before the call ends: none is left open, none is
\* released twice.
C4_ConnectionReleasedExactlyOnce ==
    /\ acquired \in {0, 1}
    /\ released <= acquired
    /\ (con = "open") = (released < acquired)
    /\ pc = "done" => (released = acquired /\ con # "open")

\* a call whose statement failed has ended with its connection released
C4_Witness ==
    /\ pc = "done"
    /\ failure = "QueryError"
    /\ acquired = 1
    /\ released = 1
    /\ con = "closed"

\* C5: whatever fails (the connection, a statement or its fetch, malformed
\* rows), the operation returns an ErrorPayload with the fixed message and the
\* underlying error, and no exception leaves the operation.
C5_FailuresBecomeErrorPayloads ==
    (pc = "done" /\ failure # "none") =>
        /\ outcome = "return"
        /\ IsErrorPayload(retval)
        /\ retval.items.message = ConnectionFailedMessage

\* C6: database_status is all-or-nothing: once connected, when one of its two
\* queries fails it returns an ErrorPayload with none of the success fields;
\* when both succeed it returns a payload with both results.
C6_StatusAllOrNothing ==
    (op = "status" /\ pc = "done" /\ executed >= 1) =>
        /\ outcome = "return"
        /\ retval.type = "dict"
        /\ failure # "none" =>
              /\ IsErrorPayload(retval)
              /\ DOMAIN retval.items \cap
                    {"pg_version", "pg_database_name", "client_id", "request_id"} = {}
        /\ failure = "none" =>
              {"pg_version", "pg_database_name"} \subseteq DOMAIN retval.items

\* C7: the success response of each operation is a mapping with the request
\* context's client_id and request_id beside the operation's data.
C7_SuccessResponseCarriesContext ==
    (pc = "done" /\ failure = "none" /\ (op = "query" => check_query(query))) =>
        /\ outcome = "return"
        /\ retval.type = "dict"
        /\ {"client_id", "request_id"} \subseteq DOMAIN retval.items
        /\ retval.items["client_id"] = ctx.client_id
        /\ retval.items["request_id"] = ctx.request_id

(***************************************************************************)
(* Properties of parse_tables (SpecParse).                                 *)
(***************************************************************************)
WellFormed(rs) == \A i \in DOMAIN rs : Len(rs[i]) = 6

\* row i is the last row of rs with the key (s, t, c)
IsLastWithKey(rs, i, s, t, c) ==
    /\ <<rs[i][1], rs[i][2], rs[i][3]>> = <<s, t, c>>
    /\ \A j \in (i + 1)..Len(rs) : <<rs[j][1], rs[j][2], rs[j][3]>> # <<s, t, c>>

HasLeaf(T, s, t, c) ==
    /\ s \in DOMAIN T
    /\ t \in DOMAIN T[s]
    /\ c \in DOMAIN T[s][t]

\* every table key, and every column key, of T
AllTables(T) == UNION {DOMAIN T[x] : x \in DOMAIN T}
AllColumns(T) == UNION {UNION {DOMAIN T[x][y] : y \in DOMAIN T[x]} : x \in DOMAIN T}

\* C8: for well-formed rows parse_tables returns the tree of exactly the
\* populated entries: a column leaf for every key (schema, table, column) of the
\* rows and for no other, with the descriptor of the last row of that key, and no
\* schema or table with an empty mapping.
C8_TreeHoldsExactlyLastDescriptors ==
    (parse_pc = "parsed" /\ WellFormed(in_rows)) =>
        /\ tree.type = "dict"
        /\ \A s \in DOMAIN tree.items :
              /\ tree.items[s] # EmptyDict
              /\ \A t \in DOMAIN tree.items[s] : tree.items[s][t] # EmptyDict
        /\ \A s \in SchemaNames \cup DOMAIN tree.items :
           \A t \in TableNames \cup AllTables(tree.items) :
           \A c \in ColumnNames \cup AllColumns(tree.items) :
              /\ HasLeaf(tree.items, s, t, c)
                    <=> \E i \in DOMAIN in_rows : IsLastWithKey(in_rows, i, s, t, c)
              /\ \A i \in DOMAIN in_rows :
                    IsLastWithKey(in_rows, i, s, t, c) =>
                        tree.items[s][t][c]
                            = [data_type |-> in_rows[i][4],
                               is_nullable |-> in_rows[i][5],
                               character_maximum_length |-> in_rows[i][6]]

\* three rows, the third overwriting the first with another descriptor, while
\* the second is of another schema
C8_Witness ==
    /\ parse_pc = "parsed"
    /\ Len(in_rows) = 3
    /\ WellFormed(in_rows)
    /\ <<in_rows[1][1], in_rows[1][2], in_rows[1][3]>>
          = <<in_rows[3][1], in_rows[3][2], in_rows[3][3]>>
    /\ in_rows[1][4] # in_rows[3][4]
    /\ in_rows[2][1] # in_rows[1][1]
    /\ tree.type = "dict"
    /\ Cardinality(DOMAIN tree.items) = 2

\* C9: flattening a tree parse_tables returned into rows, in any order, and
\* calling parse_tables on them gives the same tree.
C9_RenormalizingFlattenedTreeIsIdentity ==
    parse_pc = "renormalized" => tree2 = tree

\* a tree of three leaves was flattened in an order other than the input's
C9_Witness ==
    /\ parse_pc = "renormalized"
    /\ Len(flat_rows) = 3
    /\ flat_rows # in_rows
    /\ tree2.type = "dict"
    /\ \E s \in DOMAIN tree2.items : Cardinality(DOMAIN tree2.items[s]) = 2

\* C10: when a row is malformed parse_tables hands its caller an explicit
\* InvalidInput error: neither a tree nor an absent value.
C10_MalformedRowsGiveExplicitError ==
    (parse_pc = "parsed" /\ ~WellFormed(in_rows)) =>
        /\ tree.type # "dict"
        /\ tree.type # "NoneType"

=============================================================================
